---- MODULE Spec2Model ----
(***************************************************************************)
(* A model of the ray tracer: vector algebra, intervals, sphere and scene  *)
(* intersection, material scattering and the camera's render loop.         *)
(*                                                                         *)
(* f64 values are modelled in fixed point: an integer n stands for the     *)
(* real n / Scale, so that the shadow-acne epsilon 0.001 is one unit.      *)
(* Products, quotients and square roots round to the nearest unit.  The    *)
(* three non-finite f64 values are kept: Inf, NegInf and NaN, with the     *)
(* IEEE-754 rules for arithmetic and comparison (signed zeros are not      *)
(* distinguished).                                                         *)
(***************************************************************************)
EXTENDS Integers, Sequences, FiniteSets, TLC

VARIABLES
    objects,    \* HittableList.objects: the sequence of spheres of the scene
    givenMat,   \* per member, the material main.rs passes to Sphere::new
    history,    \* the add calls since the last clear, and whether a clear emptied a scene
    call,       \* the frame of the most recent direct call of hit or scatter
    cam,        \* the Camera: configuration fields and derived fields
    pc,         \* where render is: "idle", "pixel", "trace", "done"
    row,        \* j of render's loop
    col,        \* i of render's loop
    sample,     \* samples of the current pixel accumulated so far
    pixel_color,\* the accumulator of the current pixel
    image,      \* the pixel triples emitted so far, each with its (i, j)
    ray,        \* the ray of the active ray_color frame
    depth,      \* the depth argument of the active ray_color frame
    atts,       \* attenuations of the suspended ray_color frames, outermost first
    queries,    \* world.hit calls made for the current sample path
    path,       \* how the last finished sample path ended and what it returned
    inits,      \* calls of init made by the current render
    stale,      \* whether this render found derived fields of another configuration
    prev        \* the output of the previous render of the same inputs

vars == <<objects, givenMat, history, call, cam, pc, row, col, sample, pixel_color,
          image, ray, depth, atts, queries, path, inits, stale, prev>>

worldVars == <<objects, givenMat, history>>
renderVars == <<cam, pc, row, col, sample, pixel_color, image, ray, depth,
                atts, queries, path, inits, stale, prev>>

----------------------------------------------------------------------------
(* Bounds of the model. *)

MaxObjects == 2

\* The largest max_depth a camera is configured with.
MaxDepth == 2

----------------------------------------------------------------------------
(* f64 in fixed point. *)

Scale == 1000

Inf == 2000000000
NegInf == -Inf
NaN == Inf + 1

One == Scale

IsNaN(x) == x = NaN
IsInf(x) == x = Inf \/ x = NegInf
IsFinite(x) == NegInf < x /\ x < Inf

Abs(n) == IF n < 0 THEN -n ELSE n
Sign(n) == IF n < 0 THEN -1 ELSE IF n > 0 THEN 1 ELSE 0

\* n / d rounded to the nearest integer, ties away from zero (d # 0).
RoundDiv(n, d) ==
    LET q == (2 * Abs(n) + Abs(d)) \div (2 * Abs(d))
    IN  IF Sign(n) * Sign(d) < 0 THEN -q ELSE q

RECURSIVE FloorSqrt(_)
FloorSqrt(n) ==
    IF n < 2 THEN n
    ELSE LET s == 2 * FloorSqrt(n \div 4)
         IN  IF (s + 1) * (s + 1) <= n THEN s + 1 ELSE s

FNeg(a) == IF IsNaN(a) THEN NaN ELSE -a

FAdd(a, b) ==
    IF IsNaN(a) \/ IsNaN(b) THEN NaN
    ELSE IF IsInf(a) THEN (IF IsInf(b) /\ b # a THEN NaN ELSE a)
    ELSE IF IsInf(b) THEN b
    ELSE a + b

FSub(a, b) == FAdd(a, FNeg(b))

FMul(a, b) ==
    IF IsNaN(a) \/ IsNaN(b) THEN NaN
    ELSE IF IsInf(a) \/ IsInf(b)
         THEN (IF a = 0 \/ b = 0 THEN NaN
               ELSE IF Sign(a) * Sign(b) < 0 THEN NegInf ELSE Inf)
    ELSE RoundDiv(a * b, Scale)

FDiv(a, b) ==
    IF IsNaN(a) \/ IsNaN(b) THEN NaN
    ELSE IF IsInf(a)
         THEN (IF IsInf(b) THEN NaN
               ELSE IF Sign(a) * (IF b < 0 THEN -1 ELSE 1) < 0 THEN NegInf ELSE Inf)
    ELSE IF IsInf(b) THEN 0
    ELSE IF b = 0
         THEN (IF a = 0 THEN NaN ELSE IF a < 0 THEN NegInf ELSE Inf)
    ELSE RoundDiv(a * Scale, b)

FSqrt(a) ==
    IF IsNaN(a) \/ a < 0 THEN NaN
    ELSE IF a = Inf THEN Inf
    ELSE LET n == a * Scale
             s == FloorSqrt(n)
         IN  IF n - s * s > s THEN s + 1 ELSE s

\* The comparisons of f64: every comparison with NaN is false.
FLt(a, b) == ~IsNaN(a) /\ ~IsNaN(b) /\ a < b
FLe(a, b) == ~IsNaN(a) /\ ~IsNaN(b) /\ a <= b
FGt(a, b) == FLt(b, a)

\* f64::max and f64::min return the other operand when one is NaN.
FMax(a, b) == IF IsNaN(a) THEN b ELSE IF IsNaN(b) THEN a ELSE IF a > b THEN a ELSE b
FMin(a, b) == IF IsNaN(a) THEN b ELSE IF IsNaN(b) THEN a ELSE IF a < b THEN a ELSE b

----------------------------------------------------------------------------
(* vec3.rs *)

Vec3_new(x, y, z) == <<x, y, z>>
Vec3_zero == <<0, 0, 0>>

VNeg(v) == <<FNeg(v[1]), FNeg(v[2]), FNeg(v[3])>>
VAdd(u, v) == <<FAdd(u[1], v[1]), FAdd(u[2], v[2]), FAdd(u[3], v[3])>>
VSub(u, v) == <<FSub(u[1], v[1]), FSub(u[2], v[2]), FSub(u[3], v[3])>>
VMul(u, v) == <<FMul(u[1], v[1]), FMul(u[2], v[2]), FMul(u[3], v[3])>>
\* f64 * Vec3 and Vec3 * f64
VScale(s, v) == <<FMul(s, v[1]), FMul(s, v[2]), FMul(s, v[3])>>
\* Vec3 / f64 is (1.0 / scalar) * self
VDiv(v, s) == VScale(FDiv(One, s), v)

dot(u, v) == FAdd(FAdd(FMul(u[1], v[1]), FMul(u[2], v[2])), FMul(u[3], v[3]))
length_squared(v) == dot(v, v)
length(v) == FSqrt(length_squared(v))
unit_vector(v) == VDiv(v, length(v))
cross(u, v) ==
    << FSub(FMul(u[2], v[3]), FMul(u[3], v[2])),
       FSub(FMul(u[3], v[1]), FMul(u[1], v[3])),
       FSub(FMul(u[1], v[2]), FMul(u[2], v[1])) >>

\* near_zero compares each |component| with 1e-8, which is below one unit.
near_zero(v) == \A k \in 1..3 : ~IsNaN(v[k]) /\ v[k] = 0

reflect(v, n) == VSub(v, VScale(FMul(2 * One, dot(v, n)), n))

refract(uv, n, etai_over_etat) ==
    LET cos_theta == FMin(dot(uv, VNeg(n)), One)
        r_out_perp == VScale(etai_over_etat, VAdd(uv, VScale(cos_theta, n)))
        pm == FSub(One, length_squared(r_out_perp))
        r_out_parallel ==
            VScale(FNeg(FSqrt(IF IsNaN(pm) THEN NaN ELSE Abs(pm))), n)
    IN  VAdd(r_out_perp, r_out_parallel)

----------------------------------------------------------------------------
(* utils.rs: the random source.  random_double() reads rand::thread_rng(); a   *)
(* call may return any value of [0, 1), of which the model draws these.      *)

DrawSet == {0, 500}

random_double_range(min, max, d) == FAdd(min, FMul(FSub(max, min), d))

\* vec3.rs, random_in_range(-1.0, 1.0) from three draws.
random_in_range(min, max, ds) ==
    << random_double_range(min, max, ds[1]), random_double_range(min, max, ds[2]),
       random_double_range(min, max, ds[3]) >>

\* random_unit_vector: one pass of its loop on the draws ds.  The lower bound
\* 1e-160 is below one unit.
ruv_accepts(ds) ==
    LET len_sq == length_squared(random_in_range(-One, One, ds))
    IN  FLt(0, len_sq) /\ FLe(len_sq, One)

ruv_value(ds) ==
    LET p == random_in_range(-One, One, ds)
    IN  VDiv(p, FSqrt(length_squared(p)))

\* The draws of the pass of the loop that returns.
AcceptedDraws == { ds \in DrawSet \X DrawSet \X DrawSet : ruv_accepts(ds) }

\* random_in_unit_disk: the draws of the pass of its loop that returns, and the
\* point returned.
disk_value(ds) ==
    << random_double_range(-One, One, ds[1]), random_double_range(-One, One, ds[2]), 0 >>

AcceptedDiskDraws ==
    { ds \in DrawSet \X DrawSet : FLt(length_squared(disk_value(ds)), One) }

----------------------------------------------------------------------------
(* ray.rs *)

Ray_new(origin, direction) == [origin |-> origin, direction |-> direction]
Ray_default == Ray_new(Vec3_zero, Vec3_zero)
Ray_at(r, t) == VAdd(r.origin, VScale(t, r.direction))

----------------------------------------------------------------------------
(* interval.rs *)

Interval_new(min, max) == [min |-> min, max |-> max]

Interval_surrounds_closed(iv, x) == FLe(iv.min, x) /\ FLe(x, iv.max)

Interval_surrounds(iv, x) == FLt(iv.min, x) /\ FLt(x, iv.max)

----------------------------------------------------------------------------
(* material.rs: the three materials, as values *)

Lambertian_new(albedo) ==
    [kind |-> "Lambertian", albedo |-> albedo, fuzz |-> 0, refraction_index |-> 0]

Metal_new(albedo, fuzz) ==
    [kind |-> "Metal", albedo |-> albedo, fuzz |-> FMin(fuzz, One),
     refraction_index |-> 0]

Dielectric_new(refraction_index) ==
    [kind |-> "Dielectric", albedo |-> Vec3_zero, fuzz |-> 0,
     refraction_index |-> refraction_index]

\* powi(x, 5)
powi5(x) == FMul(FMul(FMul(FMul(x, x), x), x), x)

Dielectric_reflectance(cosine, ref_idx) ==
    LET q == FDiv(FSub(One, ref_idx), FAdd(One, ref_idx))
        r0 == FMul(q, q)
    IN  FAdd(r0, FMul(FSub(One, r0), powi5(FSub(One, cosine))))

\* scatter returns [ret, attenuation, scattered]: the value returned and the two
\* out-parameters afterwards.  via names the branch that made the direction.
Lambertian_scatter(mat, r_in, rec, ds) ==
    LET sd == VAdd(rec.normal, ruv_value(ds))
        scatter_direction == IF near_zero(sd) THEN rec.normal ELSE sd
    IN  [ret |-> TRUE, attenuation |-> mat.albedo,
         scattered |-> Ray_new(rec.p, scatter_direction), via |-> "diffuse"]

Metal_scatter(mat, r_in, rec, ds) ==
    LET reflected == VAdd(unit_vector(reflect(r_in.direction, rec.normal)),
                          VScale(mat.fuzz, ruv_value(ds)))
    IN  [ret |-> FGt(dot(reflected, rec.normal), 0), attenuation |-> mat.albedo,
         scattered |-> Ray_new(rec.p, reflected), via |-> "reflect"]

Dielectric_scatter_ge(mat, r_in, rec, d) ==
    LET r == IF rec.front_face THEN FDiv(One, mat.refraction_index)
             ELSE mat.refraction_index
        unit_direction == unit_vector(r_in.direction)
        cos_theta == FMin(dot(unit_direction, VNeg(rec.normal)), One)
        sin_theta == FSqrt(FSub(One, FMul(cos_theta, cos_theta)))
        cannot_refract == FGt(FMul(r, sin_theta), One)
        refl == cannot_refract \/ FLe(d, Dielectric_reflectance(cos_theta, r))
    IN  [ret |-> TRUE, attenuation |-> <<One, One, One>>,
         scattered |-> Ray_new(rec.p, IF refl THEN reflect(unit_direction, rec.normal)
                                      ELSE refract(unit_direction, rec.normal, r)),
         via |-> IF refl THEN "reflect" ELSE "refract"]

Dielectric_scatter(mat, r_in, rec, d) ==
    LET r == IF rec.front_face THEN FDiv(One, mat.refraction_index)
             ELSE mat.refraction_index
        unit_direction == unit_vector(r_in.direction)
        cos_theta == FMin(dot(unit_direction, VNeg(rec.normal)), One)
        sin_theta == FSqrt(FSub(One, FMul(cos_theta, cos_theta)))
        cannot_refract == FGt(FMul(r, sin_theta), One)
        refl == cannot_refract \/ FGt(Dielectric_reflectance(cos_theta, r), d)
    IN  [ret |-> TRUE, attenuation |-> <<One, One, One>>,
         scattered |-> Ray_new(rec.p, IF refl THEN reflect(unit_direction, rec.normal)
                                      ELSE refract(unit_direction, rec.normal, r)),
         via |-> IF refl THEN "reflect" ELSE "refract"]

\* rec.mat.scatter(...): dynamic dispatch on the material.  ds are the draws of
\* random_unit_vector's accepting pass, d is the draw of random_double().
Material_scatter(mat, r_in, rec, ds, d) ==
    CASE mat.kind = "Lambertian" -> Lambertian_scatter(mat, r_in, rec, ds)
      [] mat.kind = "Metal" -> Metal_scatter(mat, r_in, rec, ds)
      [] mat.kind = "Dielectric" -> Dielectric_scatter(mat, r_in, rec, d)

----------------------------------------------------------------------------
(* hittable.rs *)

DefaultAlbedo == <<400, 400, 400>>

HitRecord_default ==
    [p |-> Vec3_zero, normal |-> Vec3_zero, mat |-> Lambertian_new(DefaultAlbedo),
     t |-> 0, front_face |-> FALSE]

set_face_normal(rec, r, outward_normal) ==
    LET ff == FLt(dot(r.direction, outward_normal), 0)
    IN  [rec EXCEPT !.front_face = ff,
                    !.normal = IF ff THEN outward_normal ELSE VNeg(outward_normal)]

----------------------------------------------------------------------------
(* sphere.rs *)

\* Sphere::new takes a centre and a radius; the struct has no other field.
Sphere_new(center, radius) == [center |-> center, radius |-> FMax(radius, 0)]

\* Sphere::hit: the value returned and the caller's record afterwards.
Sphere_hit(s, r, ray_t, rec) ==
    LET oc == VSub(s.center, r.origin)
        a == length_squared(r.direction)
        h == dot(r.direction, oc)
        c == FSub(length_squared(oc), FMul(s.radius, s.radius))
        discriminant == FSub(FMul(h, h), FMul(a, c))
        sqrt_d == FSqrt(discriminant)
        root1 == FDiv(FSub(h, sqrt_d), a)
        root2 == FDiv(FAdd(h, sqrt_d), a)
        accept(root) ==
            LET p == Ray_at(r, root)
                outward_normal == VDiv(VSub(p, s.center), s.radius)
            IN  [ret |-> TRUE,
                 rec |-> set_face_normal([rec EXCEPT !.t = root, !.p = p],
                                         r, outward_normal)]
    IN  IF FLt(discriminant, 0) THEN [ret |-> FALSE, rec |-> rec]
        ELSE IF Interval_surrounds(ray_t, root1) THEN accept(root1)
        ELSE IF Interval_surrounds(ray_t, root2) THEN accept(root2)
        ELSE [ret |-> FALSE, rec |-> rec]

----------------------------------------------------------------------------
(* hittable_list.rs *)

\* The body of the loop of HittableList::hit with closest_so_far never updated.
HitLoopBody_NoShrink(st, object, r, ray_t) ==
    LET res == Sphere_hit(object, r, Interval_new(ray_t.min, st.closest_so_far),
                          st.temp_rec)
    IN  IF res.ret
        THEN [temp_rec |-> res.rec, hit_anything |-> TRUE,
              closest_so_far |-> st.closest_so_far, rec |-> res.rec]
        ELSE [st EXCEPT !.temp_rec = res.rec]

\* The body of the loop writing the caller's rec on the first hit only.
HitLoopBody_FirstHitOnly(st, object, r, ray_t) ==
    LET res == Sphere_hit(object, r, Interval_new(ray_t.min, st.closest_so_far),
                          st.temp_rec)
    IN  IF res.ret
        THEN [temp_rec |-> res.rec, hit_anything |-> TRUE,
              closest_so_far |-> res.rec.t,
              rec |-> IF st.hit_anything THEN st.rec ELSE res.rec]
        ELSE [st EXCEPT !.temp_rec = res.rec]

\* The body of the loop copying only t into the caller's rec.
HitLoopBody_CopiesT(st, object, r, ray_t) ==
    LET res == Sphere_hit(object, r, Interval_new(ray_t.min, st.closest_so_far),
                          st.temp_rec)
    IN  IF res.ret
        THEN [temp_rec |-> res.rec, hit_anything |-> TRUE,
              closest_so_far |-> res.rec.t,
              rec |-> [st.rec EXCEPT !.t = res.rec.t]]
        ELSE [st EXCEPT !.temp_rec = res.rec]

\* The body of the loop of HittableList::hit, on its locals and the caller's rec.
HitLoopBody(st, object, r, ray_t) ==
    LET res == Sphere_hit(object, r, Interval_new(ray_t.min, st.closest_so_far),
                          st.temp_rec)
    IN  IF res.ret
        THEN [temp_rec |-> res.rec, hit_anything |-> TRUE,
              closest_so_far |-> res.rec.t, rec |-> res.rec]
        ELSE [st EXCEPT !.temp_rec = res.rec]

RECURSIVE HitLoop(_, _, _, _, _)
HitLoop(objs, k, r, ray_t, st) ==
    IF k > Len(objs) THEN st
    ELSE HitLoop(objs, k + 1, r, ray_t, HitLoopBody(st, objs[k], r, ray_t))

HittableList_hit(objs, r, ray_t, rec) ==
    LET st == HitLoop(objs, 1, r, ray_t,
                      [temp_rec |-> HitRecord_default, hit_anything |-> FALSE,
                       closest_so_far |-> ray_t.max, rec |-> rec])
    IN  [ret |-> st.hit_anything, rec |-> st.rec]

HittableList_new == << >>

----------------------------------------------------------------------------
(* camera.rs: Camera::default *)

T_MIN == 1

Camera_default ==
    [aspect_ratio |-> One, image_width |-> 100, samples_per_pixel |-> 10,
     max_depth |-> 10, vfov |-> 90 * Scale,
     lookfrom |-> Vec3_zero, lookat |-> <<0, 0, -One>>, vup |-> <<0, One, 0>>,
     defocus_angle |-> 0, focus_dist |-> 10 * Scale,
     image_height |-> 0, pixel_samples_scale |-> 0, center |-> Vec3_zero,
     pixel00_loc |-> Vec3_zero, pixel_delta_u |-> Vec3_zero,
     pixel_delta_v |-> Vec3_zero, u |-> Vec3_zero, v |-> Vec3_zero,
     w |-> Vec3_zero, defocus_disk_u |-> Vec3_zero, defocus_disk_v |-> Vec3_zero]

\* f64 as u32: truncates toward zero, saturates, and maps NaN to 0.  u32::MAX is
\* beyond the integers of the model and stands as Inf.
AsU32(x) ==
    IF IsNaN(x) \/ x <= 0 THEN 0
    ELSE IF x = Inf THEN Inf
    ELSE x \div Scale

\* u32 as f64
AsF64(n) == IF n = Inf THEN Inf ELSE n * Scale

\* f64::tan(f64::to_radians(deg)) at the angles the configurations use.
TanDeg(deg) ==
    CASE deg = 0 -> 0
      [] deg = 22500 -> 414
      [] deg = 45000 -> 1000
      [] OTHER -> NaN

\* The first two lines of Camera::init, with image_height kept once it is set.
init_image_height_lazy(c) ==
    LET h0 == AsU32(FDiv(AsF64(c.image_width), c.aspect_ratio))
    IN  IF c.image_height # 0 THEN c.image_height ELSE IF h0 = 0 THEN 1 ELSE h0

\* The first two lines of Camera::init: image_height, at least 1.
init_image_height(c) ==
    LET h0 == AsU32(FDiv(AsF64(c.image_width), c.aspect_ratio))
    IN  IF h0 = 0 THEN 1 ELSE h0

\* Camera::init: the camera afterwards.
Camera_init(c) ==
    LET image_height == init_image_height(c)
        h == TanDeg(FDiv(c.vfov, 2 * One))
        viewport_height == FMul(FMul(2 * One, h), c.focus_dist)
        viewport_width ==
            FMul(viewport_height, FDiv(AsF64(c.image_width), AsF64(image_height)))
        w == unit_vector(VSub(c.lookfrom, c.lookat))
        u == unit_vector(cross(c.vup, w))
        v == cross(w, u)
        viewport_u == VScale(viewport_width, u)
        viewport_v == VScale(FNeg(viewport_height), v)
        pixel_delta_u == VDiv(viewport_u, AsF64(c.image_width))
        pixel_delta_v == VDiv(viewport_v, AsF64(image_height))
        viewport_upper_left ==
            VSub(VSub(VSub(c.lookfrom, VScale(c.focus_dist, w)),
                      VDiv(viewport_u, 2 * One)),
                 VDiv(viewport_v, 2 * One))
        defocus_radius ==
            FMul(c.focus_dist, TanDeg(FDiv(c.defocus_angle, 2 * One)))
    IN  [c EXCEPT !.image_height = image_height,
                  !.pixel_samples_scale = FDiv(One, AsF64(c.samples_per_pixel)),
                  !.center = c.lookfrom,
                  !.w = w, !.u = u, !.v = v,
                  !.pixel_delta_u = pixel_delta_u,
                  !.pixel_delta_v = pixel_delta_v,
                  !.pixel00_loc =
                      VAdd(viewport_upper_left,
                           VScale(One \div 2, VAdd(pixel_delta_u, pixel_delta_v))),
                  !.defocus_disk_u = VScale(defocus_radius, u),
                  !.defocus_disk_v = VScale(defocus_radius, v)]

\* Camera::pixel_sample_square from its two draws.
pixel_sample_square(d1, d2) == <<FAdd(-(One \div 2), d1), FAdd(-(One \div 2), d2), 0>>

\* Camera::defocus_disk_sample from the point random_in_unit_disk returns.
defocus_disk_sample(c, p) ==
    VAdd(VAdd(c.center, VScale(p[1], c.defocus_disk_u)), VScale(p[2], c.defocus_disk_v))

\* Camera::get_ray(i, j) from the draws it consumes.
get_ray(c, i, j, d1, d2, disk) ==
    LET offset == pixel_sample_square(d1, d2)
        pixel_center ==
            VAdd(VAdd(c.pixel00_loc,
                      VScale(FAdd(AsF64(i), offset[1]), c.pixel_delta_u)),
                 VScale(FAdd(AsF64(j), offset[2]), c.pixel_delta_v))
        ray_origin == IF FLe(c.defocus_angle, 0) THEN c.center
                      ELSE defocus_disk_sample(c, disk_value(disk))
    IN  Ray_new(ray_origin, VSub(pixel_center, ray_origin))

\* The last lines of Camera::ray_color: the sky gradient of a ray that hits
\* nothing.
sky_color(r) ==
    LET unit_direction == unit_vector(r.direction)
        a == FMul(One \div 2, FAdd(unit_direction[2], One))
    IN  VAdd(VScale(FSub(One, a), <<One, One, One>>),
             VScale(a, <<One \div 2, 700, One>>))

\* The frames returning attenuation + ray_color(...).
RECURSIVE unwind_add(_, _)
unwind_add(as, c) ==
    IF as = << >> THEN c
    ELSE unwind_add(SubSeq(as, 1, Len(as) - 1), VAdd(as[Len(as)], c))

\* What the suspended frames of ray_color return, innermost first, once the
\* innermost call has returned c: attenuation * ray_color(...).
RECURSIVE unwind(_, _)
unwind(as, c) ==
    IF as = << >> THEN c
    ELSE unwind(SubSeq(as, 1, Len(as) - 1), VMul(as[Len(as)], c))

----------------------------------------------------------------------------
(* color.rs *)

linear_to_gamma(x) == IF FGt(x, 0) THEN FSqrt(x) ELSE 0

\* f64::clamp(min, max): NaN stays NaN.
FClamp(x, min, max) ==
    IF IsNaN(x) THEN NaN ELSE IF x < min THEN min ELSE IF x > max THEN max ELSE x

\* write_color with the channels clamped to [0, 1].
write_color_to_one(color) ==
    [k \in 1..3 |->
        AsU32(FMul(256 * One, FClamp(linear_to_gamma(color[k]), 0, One)))]

\* write_color: the three integers of the line it formats.
write_color(color) ==
    [k \in 1..3 |->
        AsU32(FMul(256 * One, FClamp(linear_to_gamma(color[k]), 0, 999)))]

NoCall == [op |-> "none"]
NoPath == [end |-> "none"]

\* render has not been called: no frame of it exists.
RenderIdle ==
    /\ pc = "idle" /\ row = 0 /\ col = 0 /\ sample = 0
    /\ pixel_color = Vec3_zero /\ image = << >>
    /\ ray = Ray_default /\ depth = 0 /\ atts = << >> /\ queries = 0
    /\ path = NoPath /\ inits = 0 /\ stale = FALSE /\ prev = << >>

----------------------------------------------------------------------------
(* Scene building (main.rs) and direct calls of hit. *)

\* The arguments main.rs gives Sphere::new: a centre, a radius and a material.
SceneArgs ==
    { [center |-> <<0, 0, -2000>>, radius |-> 1000,
       mat |-> Lambertian_new(<<100, 200, 500>>)],
      [center |-> <<0, 0, -5000>>, radius |-> 1000,
       mat |-> Metal_new(<<800, 600, 200>>, 1000)],
      [center |-> <<0, 0, -2000>>, radius |-> 500,
       mat |-> Dielectric_new(1500)],
      [center |-> <<0, 0, -3000>>, radius |-> -1000,
       mat |-> Metal_new(<<700, 600, 500>>, 0)],
      [center |-> <<0, 1000, -1000>>, radius |-> 1000,
       mat |-> Dielectric_new(One)] }

ProbeRays ==
    { Ray_new(<<0, 0, 0>>, <<0, 0, -1000>>),
      Ray_new(<<0, 0, 0>>, <<0, 0, -2000>>),
      Ray_new(<<0, 0, -999>>, <<0, 0, -1000>>),
      Ray_new(<<0, 0, -2000>>, <<0, 1000, 0>>),
      Ray_default }

ProbeIntervals ==
    { Interval_new(T_MIN, Inf), Interval_new(0, 3000),
      Interval_new(2500, 10000), Interval_new(Inf, NegInf) }

\* The records a caller hands to hit: a fresh one, and one an earlier hit filled.
ProbeRecs ==
    { HitRecord_default,
      [p |-> <<0, 0, -7000>>, normal |-> <<0, 0, 1000>>,
       mat |-> Lambertian_new(DefaultAlbedo), t |-> 7000, front_face |-> TRUE] }

add(arg) ==
    /\ pc = "idle"
    /\ Len(objects) < MaxObjects
    /\ objects' = Append(objects, Sphere_new(arg.center, arg.radius))
    /\ givenMat' = Append(givenMat, arg.mat)
    /\ history' = [history EXCEPT !.added = Append(@, arg)]
    /\ call' = NoCall
    /\ UNCHANGED renderVars

\* clear leaving the members where they are.
clear_keeps_members ==
    /\ pc = "idle"
    /\ objects' = objects
    /\ givenMat' = givenMat
    /\ history' = [added |-> << >>, cleared |-> history.cleared \/ objects # << >>]
    /\ call' = NoCall
    /\ UNCHANGED renderVars

clear ==
    /\ pc = "idle"
    /\ objects' = HittableList_new
    /\ givenMat' = << >>
    /\ history' = [added |-> << >>, cleared |-> history.cleared \/ objects # << >>]
    /\ call' = NoCall
    /\ UNCHANGED renderVars

\* The caller of hit or scatter returns: its record goes out of scope.
DropCall ==
    /\ call # NoCall
    /\ call' = NoCall
    /\ UNCHANGED <<worldVars, renderVars>>

CallSphereHit(k, r, ray_t, rec) ==
    /\ pc = "idle" /\ call = NoCall
    /\ k \in 1..Len(objects)
    /\ LET res == Sphere_hit(objects[k], r, ray_t, rec)
       IN  call' = [op |-> "Sphere::hit", idx |-> k, r |-> r, ray_t |-> ray_t,
                    before |-> rec, ret |-> res.ret, rec |-> res.rec]
    /\ UNCHANGED <<worldVars, renderVars>>

CallListHit(r, ray_t, rec) ==
    /\ pc = "idle" /\ call = NoCall
    /\ LET res == HittableList_hit(objects, r, ray_t, rec)
       IN  call' = [op |-> "HittableList::hit", idx |-> 0, r |-> r, ray_t |-> ray_t,
                    before |-> rec, ret |-> res.ret, rec |-> res.rec]
    /\ UNCHANGED <<worldVars, renderVars>>

InitHit ==
    /\ objects = HittableList_new
    /\ givenMat = << >>
    /\ history = [added |-> << >>, cleared |-> FALSE]
    /\ call = NoCall
    /\ cam = Camera_default
    /\ RenderIdle

NextHit ==
    \/ \E arg \in SceneArgs : add(arg)
    \/ clear
    \/ DropCall
    \/ \E k \in 1..MaxObjects, r \in ProbeRays, ray_t \in ProbeIntervals,
          rec \in ProbeRecs : CallSphereHit(k, r, ray_t, rec)
    \/ \E r \in ProbeRays, ray_t \in ProbeIntervals, rec \in ProbeRecs :
          CallListHit(r, ray_t, rec)

SpecHit == InitHit /\ [][NextHit]_vars

----------------------------------------------------------------------------
(* Direct calls of Material::scatter. *)

ProbeMats ==
    { Dielectric_new(One), Dielectric_new(1500),
      Lambertian_new(<<100, 200, 500>>),
      Metal_new(<<800, 600, 200>>, 300), Metal_new(<<700, 600, 500>>, 2000),
      Metal_new(<<800, 800, 800>>, -500) }

\* Incoming rays: along -z, 3-4-5 oblique (unit and of length 2), along +x.
ScatterRays ==
    { Ray_new(<<0, 0, 1000>>, <<0, 0, -1000>>),
      Ray_new(<<0, 0, 1000>>, <<0, 800, -600>>),
      Ray_new(<<0, 0, 1000>>, <<0, 1600, -1200>>),
      Ray_new(<<0, 0, 1000>>, <<1000, 0, 0>>) }

\* Hit records on the plane z = 0 with normal +z: entered from outside and left
\* from inside.
ScatterRecs ==
    { [p |-> Vec3_zero, normal |-> <<0, 0, 1000>>,
       mat |-> Lambertian_new(DefaultAlbedo), t |-> 1000, front_face |-> ff] :
      ff \in BOOLEAN }

CallScatter(mat, r_in, rec, ds, d) ==
    /\ pc = "idle" /\ call = NoCall
    /\ LET res == Material_scatter(mat, r_in, rec, ds, d)
       IN  call' = [op |-> "scatter", mat |-> mat, r_in |-> r_in, rec |-> rec,
                    d |-> d, ret |-> res.ret, attenuation |-> res.attenuation,
                    scattered |-> res.scattered, via |-> res.via]
    /\ UNCHANGED <<worldVars, renderVars>>

InitScatter == InitHit

NextScatter ==
    \/ \E mat \in ProbeMats, r_in \in ScatterRays, rec \in ScatterRecs,
          ds \in AcceptedDraws, d \in DrawSet : CallScatter(mat, r_in, rec, ds, d)
    \/ DropCall

SpecScatter == InitScatter /\ [][NextScatter]_vars

----------------------------------------------------------------------------
(* The program: main.rs configures a camera and renders a finished scene. *)

\* image_width, aspect_ratio and samples_per_pixel of the configurations
\* rendered: one pixel, a row of two, a column of two, two samples of one
\* pixel, and the three invalid configurations.
Shapes ==
    { [image_width |-> 1, aspect_ratio |-> One, samples_per_pixel |-> 1],
      [image_width |-> 2, aspect_ratio |-> 2 * One, samples_per_pixel |-> 1],
      [image_width |-> 1, aspect_ratio |-> One \div 2, samples_per_pixel |-> 1],
      [image_width |-> 1, aspect_ratio |-> One, samples_per_pixel |-> 2],
      [image_width |-> 0, aspect_ratio |-> One, samples_per_pixel |-> 1],
      [image_width |-> 1, aspect_ratio |-> One, samples_per_pixel |-> 0],
      [image_width |-> 1, aspect_ratio |-> -One, samples_per_pixel |-> 1] }

DefocusAngles == {0, 90 * One}

\* The scenes handed to render.
RenderScenes ==
    { << >>,
      << [center |-> <<0, 0, -2000>>, radius |-> 1000,
          mat |-> Metal_new(<<800, 600, 200>>, 1000)],
         [center |-> <<0, 0, 1500>>, radius |-> 1000,
          mat |-> Dielectric_new(1500)] >> }

\* main.rs assigns the camera's public fields before it calls render.
Configure(c, shape, md, da) ==
    [c EXCEPT !.image_width = shape.image_width,
              !.aspect_ratio = shape.aspect_ratio,
              !.samples_per_pixel = shape.samples_per_pixel,
              !.max_depth = md, !.defocus_angle = da, !.focus_dist = One]

SetConfig(shape, md, da) ==
    /\ pc \in {"idle", "done"}
    /\ call = NoCall
    /\ cam' = Configure(cam, shape, md, da)
    /\ cam' # cam
    /\ pc' = "idle"
    /\ image' = << >>
    /\ inits' = 0
    /\ stale' = FALSE
    /\ prev' = << >>
    /\ UNCHANGED <<worldVars, call, row, col, sample, pixel_color, ray, depth,
                   atts, queries, path>>

\* Where render's loops stand once pixel (i, j) is done, for a camera c.
AfterPixel(c, i, j) ==
    IF i + 1 < c.image_width THEN [pc |-> "pixel", row |-> j, col |-> i + 1]
    ELSE IF j + 1 < c.image_height THEN [pc |-> "pixel", row |-> j + 1, col |-> 0]
    ELSE [pc |-> "done", row |-> 0, col |-> 0]

\* Camera::render up to its first pixel: init, the header, the loop heads.
RenderEnter(keep) ==
    /\ call = NoCall
    /\ cam' = Camera_init(cam)
    /\ inits' = 1
    /\ stale' = (cam.image_height # 0 /\ cam' # cam)
    /\ image' = << >>
    /\ prev' = keep
    /\ pc' = IF cam'.image_width > 0 /\ cam'.image_height > 0 THEN "pixel" ELSE "done"
    /\ row' = 0 /\ col' = 0 /\ sample' = 0
    /\ pixel_color' = Vec3_zero
    /\ path' = NoPath
    /\ UNCHANGED <<worldVars, call, ray, depth, atts, queries>>

Render ==
    /\ pc \in {"idle", "done"}
    /\ RenderEnter(<< >>)

\* render called again by a caller that kept the output of the call before.
RenderAgain ==
    /\ pc = "done"
    /\ RenderEnter(<<image>>)

\* One pass of the sample loop up to the call of ray_color: get_ray(i, j).
Sample(d1, d2, disk) ==
    /\ pc = "pixel"
    /\ sample < cam.samples_per_pixel
    /\ ray' = get_ray(cam, col, row, d1, d2, disk)
    /\ depth' = cam.max_depth
    /\ atts' = << >>
    /\ queries' = 0
    /\ pc' = "trace"
    /\ UNCHANGED <<worldVars, call, cam, row, col, sample, pixel_color, image,
                   path, inits, stale, prev>>

\* The innermost ray_color returns terminal: every suspended frame multiplies its
\* attenuation in, and render adds the result to the pixel.
Finish(end, terminal, q) ==
    \E value \in {unwind(atts, terminal)} :
        /\ path' = [end |-> end, atts |-> atts, last |-> ray, terminal |-> terminal,
                    value |-> value, queries |-> q]
        /\ pixel_color' = VAdd(pixel_color, value)
        /\ sample' = sample + 1
        /\ pc' = "pixel"
        /\ ray' = Ray_default /\ depth' = 0 /\ atts' = << >> /\ queries' = 0
        /\ UNCHANGED <<worldVars, call, cam, row, col, image, inits, stale, prev>>

\* ray_color called with depth 0.
RayColorExhausted ==
    /\ pc = "trace"
    /\ depth <= 0
    /\ Finish("exhausted", Vec3_zero, queries)

\* The recursive call of ray_color with depth unchanged.
Recurse_same_depth(res) ==
    /\ atts' = Append(atts, res.attenuation)
    /\ ray' = res.scattered
    /\ depth' = depth
    /\ queries' = queries + 1
    /\ UNCHANGED <<worldVars, call, cam, pc, row, col, sample, pixel_color, image,
                   path, inits, stale, prev>>

\* return attenuation * self.ray_color(&scattered, depth - 1, world): the frame
\* is suspended on its attenuation and the callee starts.
Recurse(res) ==
    /\ atts' = Append(atts, res.attenuation)
    /\ ray' = res.scattered
    /\ depth' = depth - 1
    /\ queries' = queries + 1
    /\ UNCHANGED <<worldVars, call, cam, pc, row, col, sample, pixel_color, image,
                   path, inits, stale, prev>>

\* ray_color with depth > 0 whose ray hits: the material of the record scatters
\* (a recursive call) or absorbs (black).
RayColorHit ==
    /\ pc = "trace"
    /\ depth > 0
    /\ \E h \in {HittableList_hit(objects, ray, Interval_new(T_MIN, Inf),
                                    HitRecord_default)} :
          /\ h.ret
          /\ \E ds \in AcceptedDraws, d \in DrawSet :
                \E res \in {Material_scatter(h.rec.mat, ray, h.rec, ds, d)} :
                    IF res.ret THEN Recurse(res)
                    ELSE Finish("absorbed", Vec3_zero, queries + 1)

\* ray_color with depth > 0 whose ray hits nothing: the sky gradient.
RayColorMiss ==
    /\ pc = "trace"
    /\ depth > 0
    /\ ~HittableList_hit(objects, ray, Interval_new(T_MIN, Inf),
                         HitRecord_default).ret
    /\ \E sky \in {sky_color(ray)} : Finish("miss", sky, queries + 1)

\* The end of the pixel's body: write_color, and the loops move on.
WritePixel ==
    /\ pc = "pixel"
    /\ sample >= cam.samples_per_pixel
    /\ image' = Append(image,
                       [i |-> col, j |-> row, samples |-> sample,
                        rgb |-> write_color(VScale(cam.pixel_samples_scale,
                                                   pixel_color))])
    /\ LET nxt == AfterPixel(cam, col, row)
       IN  pc' = nxt.pc /\ row' = nxt.row /\ col' = nxt.col
    /\ sample' = 0
    /\ pixel_color' = Vec3_zero
    /\ path' = NoPath
    /\ UNCHANGED <<worldVars, call, cam, ray, depth, atts, queries, inits, stale,
                   prev>>

Init ==
    /\ \E scene \in RenderScenes :
          /\ objects = [k \in 1..Len(scene) |->
                           Sphere_new(scene[k].center, scene[k].radius)]
          /\ givenMat = [k \in 1..Len(scene) |-> scene[k].mat]
          /\ history = [added |-> scene, cleared |-> FALSE]
    /\ call = NoCall
    /\ \E shape \in Shapes, md \in 0..MaxDepth, da \in DefocusAngles :
          cam = Configure(Camera_default, shape, md, da)
    /\ RenderIdle

TraceStep ==
    \/ RayColorExhausted
    \/ RayColorHit
    \/ RayColorMiss

Next ==
    \/ \E shape \in Shapes, md \in 0..MaxDepth, da \in DefocusAngles :
          SetConfig(shape, md, da)
    \/ Render
    \/ \E d1 \in DrawSet, d2 \in DrawSet, disk \in AcceptedDiskDraws :
          Sample(d1, d2, disk)
    \/ TraceStep
    \/ WritePixel

Spec == Init /\ [][Next]_vars

\* main is one thread that runs until it returns: it never stops for ever
\* between two steps.  Every state of Spec has a successor, so this is weak
\* fairness of Next.
FairSpec == Spec /\ []<><<Next>>_vars

\* render called twice with the same camera and scene: a 1 x 1 image of one
\* sample.
InitTwice ==
    /\ Init
    /\ cam.image_width = 1 /\ cam.aspect_ratio = One /\ cam.samples_per_pixel = 1

NextTwice ==
    \/ pc = "idle" /\ Render
    \/ RenderAgain
    \/ \E d1 \in DrawSet, d2 \in DrawSet, disk \in AcceptedDiskDraws :
          Sample(d1, d2, disk)
    \/ TraceStep
    \/ WritePixel

SpecTwice == InitTwice /\ [][NextTwice]_vars

----------------------------------------------------------------------------
(* Claims about hit. *)

IsHitCall == call.op \in {"Sphere::hit", "HittableList::hit"}

\* The hit parameters of the members that, asked alone with the whole interval
\* and a fresh record, report a hit.
MemberHits(objs, r, ray_t) ==
    { Sphere_hit(objs[k], r, ray_t, HitRecord_default).rec.t :
        k \in { n \in 1..Len(objs) :
                  Sphere_hit(objs[n], r, ray_t, HitRecord_default).ret } }

\* C1: HittableList::hit returns true exactly when some member has a valid hit
\* inside the interval, and the t it leaves in the caller's record is the
\* smallest of the members' valid hit parameters.
C1_NearestHit ==
    call.op = "HittableList::hit" =>
        LET ts == MemberHits(objects, call.r, call.ray_t)
        IN  /\ call.ret <=> ts # {}
            /\ call.ret => /\ call.rec.t \in ts
                           /\ \A t \in ts : call.rec.t <= t

\* C1 witness: a scene whose first member is hit farther than its second, so that
\* the nearer hit is found after the farther one.
C1_Witness ==
    /\ call.op = "HittableList::hit" /\ call.ret
    /\ Len(objects) >= 2
    /\ LET a == Sphere_hit(objects[1], call.r, call.ray_t, HitRecord_default)
           b == Sphere_hit(objects[2], call.r, call.ray_t, HitRecord_default)
       IN  a.ret /\ b.ret /\ b.rec.t < a.rec.t /\ call.rec.t = b.rec.t

C1_WitnessNearFirst ==
    /\ call.op = "HittableList::hit" /\ call.ret
    /\ Len(objects) >= 2
    /\ LET a == Sphere_hit(objects[1], call.r, call.ray_t, HitRecord_default)
           b == Sphere_hit(objects[2], call.r, call.ray_t, HitRecord_default)
       IN  a.ret /\ b.ret /\ a.rec.t < b.rec.t /\ call.rec.t = a.rec.t

\* C2: a hit reported by Sphere::hit or HittableList::hit has its t strictly
\* inside the interval: min < t < max.
C2_StrictlyInside ==
    (IsHitCall /\ call.ret) =>
        /\ FLt(call.ray_t.min, call.rec.t)
        /\ FLt(call.rec.t, call.ray_t.max)

\* C2 witness: the sphere's nearer root is exactly the lower bound of the
\* interval (it is accepted once the bound is lowered by one unit), and the hit
\* reported is the farther root.
C2_Witness ==
    /\ call.op = "Sphere::hit" /\ call.ret
    /\ IsFinite(call.ray_t.min)
    /\ LET low == Sphere_hit(objects[call.idx], call.r,
                             Interval_new(call.ray_t.min - 1, call.ray_t.max),
                             HitRecord_default)
       IN  low.ret /\ low.rec.t = call.ray_t.min
    /\ call.rec.t > call.ray_t.min

\* C3: after a successful Sphere::hit the record's material is the material of
\* the sphere that was hit.
C3_MaterialOfSphere ==
    (call.op = "Sphere::hit" /\ call.ret) => call.rec.mat = givenMat[call.idx]

----------------------------------------------------------------------------
(* Claims about scatter. *)

IsUnitIndexCall ==
    /\ call.op = "scatter"
    /\ call.mat = Dielectric_new(One)

CosTheta(c) == FMin(dot(unit_vector(c.r_in.direction), VNeg(c.rec.normal)), One)

\* C10 as claimed: a Dielectric with refraction_index = 1.0 always refracts: scatter
\* returns true with attenuation (1,1,1) and a direction made by refract.
C10_AlwaysRefracts ==
    IsUnitIndexCall =>
        /\ call.ret
        /\ call.attenuation = <<One, One, One>>
        /\ call.via = "refract"

\* C10 as amended: a Dielectric with refraction_index = 1.0 always scatters with
\* attenuation (1,1,1); it reflects exactly when the draw is below the Schlick
\* term (1 - cos)^5 and refracts otherwise, leaving the unit direction as it is;
\* at normal incidence (cos = 1) it refracts whatever the draw.
C10_RefractsUnlessSchlick ==
    IsUnitIndexCall =>
        LET ud == unit_vector(call.r_in.direction)
            schlick == powi5(FSub(One, CosTheta(call)))
        IN  /\ call.ret
            /\ call.attenuation = <<One, One, One>>
            /\ (call.via = "reflect") <=> FLt(call.d, schlick)
            /\ call.via = "reflect" =>
                   call.scattered.direction = reflect(ud, call.rec.normal)
            /\ call.via = "refract" =>
                   call.scattered.direction = refract(ud, call.rec.normal, One)
            /\ CosTheta(call) = One => call.via = "refract"

\* C10 witnesses: an oblique ray reflected by the unit-index dielectric, and one
\* refracted.
C10_Witness ==
    /\ IsUnitIndexCall
    /\ call.via = "reflect"
    /\ FLt(0, CosTheta(call)) /\ FLt(CosTheta(call), One)

C10_WitnessRefract ==
    /\ IsUnitIndexCall
    /\ call.via = "refract"
    /\ FLt(0, CosTheta(call)) /\ FLt(CosTheta(call), One)
    /\ call.scattered.direction = unit_vector(call.r_in.direction)

----------------------------------------------------------------------------
(* Claims about render and ray_color. *)

Black == Vec3_zero

\* a1 * (a2 * (... * terminal)), the attenuations taken outermost first.
RECURSIVE PathProduct(_, _, _)
PathProduct(as, k, terminal) ==
    IF k > Len(as) THEN terminal ELSE VMul(as[k], PathProduct(as, k + 1, terminal))

\* C4: the recursion of ray_color terminates: each recursive call has depth one
\* less, a sample path makes at most max_depth scene queries, and a call with
\* depth 0 returns black without a query.
C4_DepthBounded ==
    /\ [](pc = "trace" => depth >= 0 /\ queries + depth = cam.max_depth)
    /\ [][(pc = "trace" /\ pc' = "trace")
            => (depth' = depth - 1 /\ queries' = queries + 1)]_vars
    /\ [][(pc = "trace" /\ depth = 0)
            => /\ path'.end = "exhausted"
               /\ path'.terminal = Black
               /\ path'.queries = queries]_vars
    /\ (pc = "trace" ~> pc = "pixel")

\* C4 witness: a path that used its whole budget of two or more bounces.
C4_Witness ==
    /\ path.end = "exhausted"
    /\ path.queries = cam.max_depth
    /\ cam.max_depth >= 2
    /\ path.value = Black

\* C5: the value of a sample path is the product of its attenuations times a
\* terminal colour: the sky gradient exactly when the path ends in a miss, black
\* when it ends in an absorption or with the depth budget used up.
C5_PathValue ==
    path.end # "none" =>
        LET hit == HittableList_hit(objects, path.last, Interval_new(T_MIN, Inf),
                                    HitRecord_default).ret
            terminal == IF path.end = "miss" THEN sky_color(path.last) ELSE Black
        IN  /\ path.end \in {"miss", "absorbed", "exhausted"}
            /\ path.value = PathProduct(path.atts, 1, terminal)
            /\ path.end = "miss" <=> (Len(path.atts) < cam.max_depth /\ ~hit)
            /\ path.end = "exhausted" <=> Len(path.atts) = cam.max_depth
            /\ path.end = "absorbed" => hit

\* C5 witness: a path of at least one bounce that ends in a miss and carries
\* attenuated sky light.
C5_Witness ==
    /\ path.end = "miss"
    /\ Len(path.atts) >= 1
    /\ path.value # Black
    /\ path.value # path.terminal

InvalidConfig(c) ==
    \/ c.image_width = 0
    \/ c.samples_per_pixel = 0
    \/ FLt(c.aspect_ratio, 0)

\* C6: a render of an invalid configuration (image_width = 0, samples_per_pixel
\* = 0 or a negative aspect_ratio) is rejected by init: it never reaches the
\* pixel loop and produces no output.
C6_InvalidRejected ==
    InvalidConfig(cam) => (pc = "idle" /\ image = << >>)

\* C6, the part about pixels alone: an invalid configuration emits no pixel.
C6_NoPixelWhenInvalid ==
    InvalidConfig(cam) => image = << >>

C7_WitnessRow ==
    /\ pc = "done"
    /\ cam.image_width = 2 /\ Len(image) = 2
    /\ image[2].j = 0 /\ image[2].i = 1

\* C8: two renders of the same configuration and scene give the same output.
C8_SameOutput ==
    (pc = "done" /\ prev # << >>) => image = prev[1]

\* The camera with its derived fields as Camera::default leaves them.
ResetDerived(c) ==
    [c EXCEPT !.image_height = 0, !.pixel_samples_scale = 0,
              !.center = Vec3_zero, !.pixel00_loc = Vec3_zero,
              !.pixel_delta_u = Vec3_zero, !.pixel_delta_v = Vec3_zero,
              !.u = Vec3_zero, !.v = Vec3_zero, !.w = Vec3_zero,
              !.defocus_disk_u = Vec3_zero, !.defocus_disk_v = Vec3_zero]

\* C9: in a render init has run exactly once before any sample ray, and every
\* derived field is the value the current configuration alone determines.
C9_InitFresh ==
    pc \in {"pixel", "trace", "done"} =>
        /\ inits = 1
        /\ cam = Camera_init(ResetDerived(cam))
        /\ cam.image_height =
              (LET h == AsU32(FDiv(AsF64(cam.image_width), cam.aspect_ratio))
               IN  IF h = 0 THEN 1 ELSE h)
        /\ cam.center = cam.lookfrom
        /\ cam.pixel_samples_scale = FDiv(One, AsF64(cam.samples_per_pixel))

\* C9 witness: a render that found the derived fields of an earlier render of
\* another configuration, and now samples a pixel of a two-row image.
C9_Witness ==
    /\ pc = "trace"
    /\ stale
    /\ inits = 1
    /\ cam.image_height = 2

----------------------------------------------------------------------------
(* Claims about the constructors of the materials. *)

\* C11: whatever fuzz Metal::new is given, negative or above 1, the fuzz the
\* Metal stores lies in [0, 1].
C11_FuzzInUnitInterval ==
    (call.op = "scatter" /\ call.mat.kind = "Metal") =>
        (FLe(0, call.mat.fuzz) /\ FLe(call.mat.fuzz, One))

----------------------------------------------------------------------------
(* Claims about the order of the members. *)

\* The scenes holding the members of objs in every order.
Perms(objs) ==
    { [i \in 1..Len(objs) |-> objs[f[i]]] :
        f \in { g \in [1..Len(objs) -> 1..Len(objs)] :
                  \A i, j \in 1..Len(objs) : g[i] = g[j] => i = j } }

\* What each member of objs reports when asked alone with the whole interval
\* and a fresh record, with its place in objs.
Alone(objs, r, ray_t) ==
    { [k |-> k, res |-> Sphere_hit(objs[k], r, ray_t, HitRecord_default)] :
        k \in 1..Len(objs) }

\* The members hit at the smallest t of all.
Winners(al) ==
    { a \in al : /\ a.res.ret
                 /\ \A b \in al : b.res.ret => a.res.rec.t <= b.res.rec.t }

\* The winners do not all report the same record.
IsTie(al) == \E a, b \in Winners(al) : a.res.rec # b.res.rec

\* C12 as claimed: the members in any other order give the same boolean and the
\* same record, also when two members are hit at exactly the same t.
C12_OrderIrrelevant ==
    call.op = "HittableList::hit" =>
        \A q \in Perms(objects) :
            LET o == HittableList_hit(q, call.r, call.ray_t, call.before)
            IN  o.ret = call.ret /\ o.rec = call.rec

\* C12 as amended: any other order gives the same boolean and the same t, and
\* the same record unless two members are hit at exactly the same smallest t
\* with different records; then the record is that of the one inserted first.
C12_OrderBreaksTies ==
    call.op = "HittableList::hit" =>
        \A q \in Perms(objects) :
            \A o \in {HittableList_hit(q, call.r, call.ray_t, call.before)},
               w \in {Winners(Alone(q, call.r, call.ray_t))} :
                /\ o.ret = call.ret
                /\ o.ret <=> w # {}
                /\ ~o.ret => o.rec = call.rec
                /\ o.ret =>
                      /\ o.rec.t = call.rec.t
                      /\ \E a \in w : /\ \A b \in w : a.k <= b.k
                                      /\ o.rec = a.res.rec
                      /\ (\A a, b \in w : a.res.rec = b.res.rec) => o.rec = call.rec

\* C12 witnesses: two members hit at different t, found in either order; and
\* two members hit at the same t with different normals.
C12_Witness ==
    /\ call.op = "HittableList::hit" /\ call.ret
    /\ Len(objects) = 2
    /\ \E a, b \in Alone(objects, call.r, call.ray_t) :
          /\ a.k = 1 /\ b.k = 2
          /\ a.res.ret /\ b.res.ret
          /\ a.res.rec.t > b.res.rec.t
    /\ HittableList_hit(<<objects[2], objects[1]>>, call.r, call.ray_t,
                        call.before).rec = call.rec

C12_WitnessTie ==
    /\ call.op = "HittableList::hit" /\ call.ret
    /\ Len(objects) = 2
    /\ \E a, b \in Alone(objects, call.r, call.ray_t) :
          /\ a.k = 1 /\ b.k = 2
          /\ IsTie({a, b})
          /\ call.rec = a.res.rec
          /\ HittableList_hit(<<objects[2], objects[1]>>, call.r, call.ray_t,
                              call.before).rec = b.res.rec

----------------------------------------------------------------------------
(* Claims about add and clear. *)

\* The spheres the add calls since the last clear have built, in call order.
AddedSpheres ==
    [k \in 1..Len(history.added) |->
        Sphere_new(history.added[k].center, history.added[k].radius)]

\* C13: after any adds and clears the scene holds exactly the objects added
\* since the most recent clear, once per add, and hit considers those and no
\* other; a scene with no member reports no hit and writes nothing.
C13_ExactlyAdded ==
    /\ objects = AddedSpheres
    /\ call.op = "HittableList::hit" =>
          /\ call.ret <=>
                \E k \in 1..Len(history.added) :
                    Sphere_hit(AddedSpheres[k], call.r, call.ray_t,
                               HitRecord_default).ret
          /\ history.added = << >> => (~call.ret /\ call.rec = call.before)

\* C13 witnesses: a hit on a member added after a clear emptied a scene, and a
\* query of the emptied scene.
C13_Witness ==
    /\ call.op = "HittableList::hit"
    /\ history.cleared
    /\ Len(history.added) = 1
    /\ call.ret

C13_WitnessEmpty ==
    /\ call.op = "HittableList::hit"
    /\ history.cleared
    /\ history.added = << >>
    /\ ~call.ret

----------------------------------------------------------------------------
(* Claims about Sphere::hit. *)

\* The quadratic |O + tD - C|^2 = r^2 in t, solved by the textbook formula:
\* a = D.D, b = 2 D.(O - C), c = |O - C|^2 - r^2.
Quadratic(s, r) ==
    LET oc == VSub(r.origin, s.center)
        a == length_squared(r.direction)
        b == FMul(2 * One, dot(r.direction, oc))
        c == FSub(length_squared(oc), FMul(s.radius, s.radius))
        disc == FSub(FMul(b, b), FMul(4 * One, FMul(a, c)))
    IN  [disc |-> disc,
         t1 |-> FDiv(FSub(FNeg(b), FSqrt(disc)), FMul(2 * One, a)),
         t2 |-> FDiv(FAdd(FNeg(b), FSqrt(disc)), FMul(2 * One, a))]

\* The distance from the origin of the ray to the centre of the sphere.
CentreDistance(s, r) == length(VSub(s.center, r.origin))

\* The ray has a unit direction and is aimed at the centre of the sphere from
\* outside it.
AimedAtCentre(s, r) ==
    /\ length_squared(r.direction) = One
    /\ CentreDistance(s, r) > s.radius
    /\ VAdd(r.origin, VScale(CentreDistance(s, r), r.direction)) = s.center

\* C14, the choice of the root: with real roots t1 <= t2, Sphere::hit reports t1
\* when it is strictly inside the interval, otherwise t2 when it is, otherwise
\* nothing; with a negative discriminant it reports nothing.
C14_RootOrder ==
    (call.op = "Sphere::hit" /\ call.r.direction # Vec3_zero) =>
        LET q == Quadratic(objects[call.idx], call.r)
        IN  IF FLt(q.disc, 0) THEN ~call.ret
            ELSE /\ q.t1 <= q.t2
                 /\ IF Interval_surrounds(call.ray_t, q.t1)
                    THEN call.ret /\ call.rec.t = q.t1
                    ELSE IF Interval_surrounds(call.ray_t, q.t2)
                    THEN call.ret /\ call.rec.t = q.t2
                    ELSE ~call.ret

\* C14, the ray aimed at the centre from outside at distance d > r with a unit
\* direction: the hit is at t = d - r and the normal is the reversed direction.
C14_CentreAimed ==
    ( /\ call.op = "Sphere::hit"
      /\ AimedAtCentre(objects[call.idx], call.r)
      /\ Interval_surrounds(call.ray_t,
             CentreDistance(objects[call.idx], call.r) - objects[call.idx].radius) )
    => /\ call.ret
       /\ call.rec.t =
              CentreDistance(objects[call.idx], call.r) - objects[call.idx].radius
       /\ call.rec.normal = VNeg(call.r.direction)

\* C14: Sphere::hit reports the smaller root inside the interval, else the
\* larger, else nothing, and a centre-aimed ray from outside reports t = d - r
\* with the reversed direction as normal.
C14_SphereHitRoots == C14_RootOrder /\ C14_CentreAimed

\* (p - center) / radius, the outward normal of sphere s at p.
Outward(s, p) == VDiv(VSub(p, s.center), s.radius)

\* The record of the call follows the front-face rule for sphere s.
FaceRule(s) ==
    LET outward_normal == Outward(s, call.rec.p)
    IN  /\ call.rec.front_face <=> FLt(dot(call.r.direction, outward_normal), 0)
        /\ call.rec.normal = IF call.rec.front_face THEN outward_normal
                              ELSE VNeg(outward_normal)

\* C15, the rule alone: front_face is dot(direction, outward normal) < 0 and the
\* stored normal is the outward normal or its negation accordingly.
C15_FaceRule ==
    /\ (call.op = "Sphere::hit" /\ call.ret) => FaceRule(objects[call.idx])
    /\ (call.op = "HittableList::hit" /\ call.ret) =>
          \E k \in 1..Len(objects) : FaceRule(objects[k])

\* C15: after every successful hit front_face is true exactly when
\* dot(direction, outward normal) < 0, the stored normal is the outward normal
\* or its negation accordingly, and dot(direction, stored normal) <= 0.
C15_NormalAgainstRay ==
    /\ C15_FaceRule
    /\ (IsHitCall /\ call.ret) =>
          FLe(dot(call.r.direction, call.rec.normal), 0)

----------------------------------------------------------------------------
(* Claims about what hit writes. *)

\* C16: a hit that returns false leaves the caller's record exactly as it was,
\* and a HittableList::hit that returns true leaves the record of one member's
\* hit, never fields of two.
C16_RecordWhole ==
    /\ (IsHitCall /\ ~call.ret) => call.rec = call.before
    /\ (call.op = "HittableList::hit" /\ call.ret) =>
          \E a \in Alone(objects, call.r, call.ray_t) :
              a.res.ret /\ call.rec = a.res.rec

\* C16 witnesses: a scene of two members whose second is hit nearer than its
\* first, so that the record is written twice, asked with a record an earlier
\* hit filled; and a sphere with real roots outside the interval, asked with
\* such a record.
C16_Witness ==
    /\ call.op = "HittableList::hit" /\ call.ret
    /\ call.before # HitRecord_default
    /\ Len(objects) = 2
    /\ \E a, b \in Alone(objects, call.r, call.ray_t) :
          /\ a.k = 1 /\ b.k = 2
          /\ a.res.ret /\ b.res.ret
          /\ b.res.rec.t < a.res.rec.t
          /\ a.res.rec.normal # b.res.rec.normal
          /\ call.rec = b.res.rec

C16_WitnessMiss ==
    /\ call.op = "Sphere::hit" /\ ~call.ret
    /\ call.before # HitRecord_default
    /\ call.rec = call.before
    /\ ~FLt(Quadratic(objects[call.idx], call.r).disc, 0)
    /\ call.r.direction # Vec3_zero

====
